---- MODULE Spec2Model ----
(***************************************************************************)
(* AutoPruneStrategy (paddle/fluid/contrib/slim/prune/auto_prune_strategy) *)
(* as a state machine: the strategy object, the compression context it is  *)
(* handed (evaluation graph, optimization graph, scope, epoch, metrics),   *)
(* the search controller it drives and the training loop that calls its    *)
(* hooks.                                                                  *)
(*                                                                         *)
(* Numbers.  A pruning ratio is a pair <<num, den>> standing for num/den.  *)
(* Token ratios are <<token, 100, ulps>>.  The ratios of the binary search *)
(* are binary fractions <<n, Scale>>: it is run on a binary floating       *)
(* grid of Precision fraction bits with round-to-nearest-even midpoints,   *)
(* which is how the float midpoint (max_ratio + min_ratio) / 2 behaves     *)
(* once the two bounds are adjacent floats.  min_ratio and max_ratio of    *)
(* the band are held in hundredths.  A parameter's shape is its dimension  *)
(* 0 (the pruned axis); a tensor is its dimension 0 and a data version.    *)
(***************************************************************************)
EXTENDS Integers, Sequences, FiniteSets, TLC

VARIABLES
    \* constructor arguments and fields of the strategy
    start_epoch, end_epoch, _min_ratio, _max_ratio, pruned_params,
    retrain_epoch, _retrain_epoch,
    _pruned_param_names, _current_tokens, _range_table,
    _param_backup, _param_shape_backup, backup_set,
    \* locals of _get_uniform_ratios, alive while on_compression_begin runs
    min_ratio, max_ratio, ratios, flops, param_shape_backup,
    \* the context
    epoch_id, skip_training, eval_results, eval_graph, optimize_graph, scope,
    \* the controller
    controller,
    \* the caller's position, the error it died of
    pc, err,
    \* observations: the graphs and scope as on_epoch_begin found them,
    \* what the last _constrain_func call was given and what it returned
    snap, last_constrain, constrain_tokens,
    \* a round trip of the token codec: the ratio, its token, the ratio back
    codec

cfgVars == <<start_epoch, end_epoch, _min_ratio, _max_ratio, pruned_params,
             retrain_epoch, _retrain_epoch>>
stratVars == <<_pruned_param_names, _current_tokens, _range_table,
               _param_backup, _param_shape_backup, backup_set>>
searchVars == <<min_ratio, max_ratio, ratios, flops, param_shape_backup>>
ctxVars == <<epoch_id, skip_training, eval_results, eval_graph,
             optimize_graph, scope>>
vars == <<cfgVars, stratVars, searchVars, ctxVars, controller, pc, err,
          snap, last_constrain,
                   constrain_tokens, codec>>

----------------------------------------------------------------------------
(* Bounds of the model *)

\* the training loop runs epochs 0 .. MaxEpoch
MaxEpoch == 3
\* fraction bits of the binary-search grid
Precision == 6
\* evaluations the training loop appends to eval_results
MaxEvals == 1
\* on_compression_begin calls on one strategy
MaxBegins == 2

(* Program constants *)

\* int(ratio / 0.01), token * 0.01
Quantum == 100
\* abs(pruned_flops - target) < 1e-2
Tolerance == 100

Scale == 2 ^ Precision

----------------------------------------------------------------------------
(* The graphs the strategy is run on *)

AllParameters == <<"conv1_weights", "conv2_dw_weights", "fc_weights">>
Names == {AllParameters[i] : i \in 1..Len(AllParameters)}
Depthwise == {"conv2_dw_weights"}

\* dimension 0 of each parameter
GraphShapes ==
    { [n \in Names |-> CASE n = "conv1_weights" -> 6
                         [] n = "conv2_dw_weights" -> 6
                         [] OTHER -> 8],
      [n \in Names |-> CASE n = "conv1_weights" -> 4
                         [] n = "conv2_dw_weights" -> 8
                         [] OTHER -> 3] }

Patterns == {"conv.*_weights", "conv1.*", "res.*_weights"}
Bands == {<<50, 70>>, <<20, 40>>, <<10, 20>>}
TokenValues == {0, 30}
\* the token values of the vectors the controller probes _constrain_func with
ProbeValues == {0, 30, 60}
Rewards == {1, 2}

\* re.match(pattern, name) on the patterns and names above
ReMatch(pattern, name) ==
    CASE pattern = "conv.*_weights" ->
             name \in {"conv1_weights", "conv2_dw_weights"}
      [] pattern = "conv1.*" -> name = "conv1_weights"
      [] OTHER -> FALSE

Last(s) == s[Len(s)]

RECURSIVE SumOver(_, _)
SumOver(f, S) ==
    IF S = {} THEN 0
    ELSE LET n == CHOOSE x \in S : TRUE IN f[n] + SumOver(f, S \ {n})

\* GraphWrapper.flops(): one unit per remaining channel of every parameter
Flops(shape) == SumOver(shape, Names)

\* GraphWrapper.update_groups_of_conv(): a depthwise convolution's groups
\* attribute is set to its filter's dimension 0
UpdateGroupsOfConv(shape) ==
    [n \in Names |-> IF n \in Depthwise THEN shape[n] ELSE 1]

----------------------------------------------------------------------------
(* The codec *)

(* Python floats are IEEE-754 doubles.  D(n/100) is the double nearest to   *)
(* n/100; the doubles met here are written as a rational plus an offset     *)
(* counted in units of 2^-ErrBits / 100, small enough for every offset to   *)
(* be an integer.  A ratio <<num, den>> stands for the double nearest to    *)
(* num/den (exact when den is a power of two), a ratio <<num, den, k>> for  *)
(* the double k ulps above it.                                              *)

\* fraction bits of a double's mantissa
MantissaBits == 52
\* the offsets are counted in units of 2^-ErrBits / 100
ErrBits == 59

\* 2^e modulo m, by squaring
RECURSIVE Pow2Mod(_, _)
Pow2Mod(e, m) ==
    IF e = 0 THEN 1 % m
    ELSE LET h == Pow2Mod(e \div 2, m)
         IN (h * h * (IF e % 2 = 1 THEN 2 ELSE 1)) % m

\* the least j with n * 2^j >= 100: n/100 lies in [2^-j, 2^(1-j))
RECURSIVE LeadShift(_, _)
LeadShift(n, j) == IF n * 2 ^ j >= Quantum THEN j ELSE LeadShift(n, j + 1)

\* D(n/100) for n in 0..100: its offset from n/100, its ulp, both in units,
\* and the parity of its mantissa (round to nearest, ties to even)
DoubleTable ==
    [n \in 0..Quantum |->
        IF n = 0 THEN [err |-> 0, ulp |-> 0, odd |-> 0]
        ELSE LET s == MantissaBits + LeadShift(n, 0)
                 a == (n * Pow2Mod(s, 2 * Quantum)) % (2 * Quantum)
                 rem == a % Quantum
                 fl_odd == a \div Quantum
                 down == 2 * rem < Quantum \/ (2 * rem = Quantum /\ fl_odd = 0)
                 sc == 2 ^ (ErrBits - s)
             IN [err |-> (IF down THEN -rem ELSE Quantum - rem) * sc,
                 ulp |-> Quantum * sc,
                 odd |-> IF down THEN fl_odd ELSE 1 - fl_odd]]

DoubleOf(n) == DoubleTable[n]

\* the offset of the literal 0.01
HundredthErr == DoubleOf(1).err

\* the j with 2^j < n <= 2^(j+1), for n >= 1 (-1 for n = 1): the doubles just
\* below n are 2^(j - MantissaBits) apart
RECURSIVE BinadeBelow(_, _)
BinadeBelow(n, j) == IF 2 ^ (j + 1) >= n THEN j ELSE BinadeBelow(n, j + 1)

\* the offset of a ratio without ulps from the rational it stands for
RatioErr(r) == IF r[2] = Quantum THEN DoubleOf(r[1]).err ELSE 0

\* ratio / 0.01 when num/den is t hundredths exactly: the double quotient
\* is below t when the divisor's excess over 1/100 outweighs the ratio's
QuotientBelow(t, r_err) ==
    /\ t >= 1
    /\ t * HundredthErr - r_err > 2 ^ (6 + BinadeBelow(t, -1))

\* int(ratio / 0.01)
RatioToToken(r) ==
    LET t == (r[1] * Quantum) \div r[2]
    IN IF (r[1] * Quantum) % r[2] = 0 /\ QuotientBelow(t, RatioErr(r))
       THEN t - 1 ELSE t

\* token * 0.01 is D(token/100) plus this many ulps: the product of token
\* and D(0.01), rounded to nearest, ties to even
UlpsTable ==
    [t \in 0..Quantum |->
        IF t = 0 THEN 0
        ELSE LET d == DoubleOf(t)
                 num == t * HundredthErr - d.err
                 k == num \div d.ulp
                 r == num - k * d.ulp
             IN IF 2 * r > d.ulp \/ (2 * r = d.ulp /\ (d.odd + k) % 2 = 1)
                THEN k + 1 ELSE k]

UlpsAbove(t) == UlpsTable[t]

\* _ratios_to_tokens: [int(ratio / 0.01) for ratio in ratios]
RatiosToTokens(rs) == [i \in 1..Len(rs) |-> RatioToToken(rs[i])]

\* _tokens_to_ratios: [token * 0.01 for token in tokens]
TokensToRatios(tokens) ==
    [i \in 1..Len(tokens) |-> <<tokens[i], Quantum, UlpsAbove(tokens[i])>>]

\* the ratios the codec is observed on: the hundredths and the binary
\* fractions of [0, 1)
CodecInputs ==
    {<<n, Quantum>> : n \in 0..(Quantum - 1)} \cup
    {<<n, Scale>> : n \in 0..(Scale - 1)}

----------------------------------------------------------------------------
(* The pruner *)

\* channels removed from a dimension of c at ratio r: round(c * ratio); an
\* offset of ulps moves no product of the graphs here across a half
PruneNum(c, r) == (2 * c * r[1] + r[2]) \div (2 * r[2])

Min2(a, b) == IF a < b THEN a ELSE b

\* PruneStrategy._prune_parameters over zip(params, ratios), from index i.
\* st = [shape, scope, pb, sb]: the graph's shapes, the scope's tensors, the
\* tensor backup and the shape backup.  A backup entry is written once,
\* before the parameter is changed; only_graph leaves the tensors alone.
RECURSIVE PruneParametersFrom(_, _, _, _, _, _, _)
PruneParametersFrom(i, st, params, rs, only_graph, keep_pb, keep_sb) ==
    IF i > Min2(Len(params), Len(rs)) THEN st
    ELSE LET p == params[i]
             c == st.shape[p]
             k == c - PruneNum(c, rs[i])
             pb2 == IF keep_pb /\ p \notin DOMAIN st.pb
                    THEN st.pb @@ (p :> st.scope[p]) ELSE st.pb
             sb2 == IF keep_sb /\ p \notin DOMAIN st.sb
                    THEN st.sb @@ (p :> c) ELSE st.sb
             sc2 == IF only_graph THEN st.scope
                    ELSE [st.scope EXCEPT ![p].ch = k]
             st2 == [shape |-> [st.shape EXCEPT ![p] = k], scope |-> sc2,
                     pb |-> pb2, sb |-> sb2]
         IN PruneParametersFrom(i + 1, st2, params, rs, only_graph,
                                keep_pb, keep_sb)

PruneParameters(shape, sc, params, rs, only_graph, keep_pb, keep_sb) ==
    PruneParametersFrom(1, [shape |-> shape, scope |-> sc,
                            pb |-> <<>>, sb |-> <<>>],
                        params, rs, only_graph, keep_pb, keep_sb)

\* var(param).set_shape(backup[param]) for every param of the backup
SetShapes(shape, backup) ==
    [n \in Names |-> IF n \in DOMAIN backup THEN backup[n] ELSE shape[n]]

\* param_t.set(backup[param_name], place) for every param of the backup
SetTensors(sc, backup) ==
    [n \in Names |-> IF n \in DOMAIN backup THEN backup[n] ELSE sc[n]]

\* PruneStrategy._prune_graph(graph, target_graph): graph takes the shapes of
\* target_graph
PruneGraph(shape, target_shape) == target_shape

----------------------------------------------------------------------------
(* Construction *)

\* __init__: self._retrain_epoch = 0, whatever retrain_epoch was passed
InitRetrainEpoch(arg) == 0

\* no round trip of the codec is under observation
NoCodec == [pc |-> "off"]

NoController ==
    [resets |-> 0, n_next |-> 0, n_update |-> 0, last |-> "none",
     issued |-> <<>>, upd |-> <<>>, _best_tokens |-> <<>>, max_reward |-> 0]

InitStrategy ==
    /\ start_epoch \in 0..1
    /\ end_epoch \in 0..2
    /\ \E b \in Bands : _min_ratio = b[1] /\ _max_ratio = b[2]
    /\ pruned_params \in Patterns
    /\ retrain_epoch \in {0, 2}
    /\ _retrain_epoch = InitRetrainEpoch(retrain_epoch)
    /\ _pruned_param_names = <<>>
    /\ _current_tokens = <<>>
    /\ _range_table = <<>>
    /\ _param_backup = <<>>
    /\ _param_shape_backup = <<>>
    /\ backup_set = FALSE
    /\ min_ratio = 0
    /\ max_ratio = 0
    /\ ratios = <<>>
    /\ flops = 0
    /\ param_shape_backup = <<>>
    /\ epoch_id = 0
    /\ skip_training = FALSE
    /\ eval_results = <<1>>
    /\ \E g \in GraphShapes :
          /\ eval_graph = [shape |-> g, groups |-> UpdateGroupsOfConv(g)]
          /\ optimize_graph = [shape |-> g, groups |-> UpdateGroupsOfConv(g)]
          /\ scope = [n \in Names |-> [ch |-> g[n], ver |-> 0]]
          /\ snap = [opt |-> g, eval |-> g,
                     scope |-> [n \in Names |-> [ch |-> g[n], ver |-> 0]]]
    /\ controller = NoController
    /\ pc = "new"
    /\ err = "none"
    /\ last_constrain = "none"
    /\ constrain_tokens = <<>>

Init == InitStrategy /\ codec = NoCodec

----------------------------------------------------------------------------
(* on_compression_begin, _get_init_tokens, _get_uniform_ratios *)

\* the parameters of the evaluation graph whose name matches pruned_params
MatchedParams == SelectSeq(AllParameters, LAMBDA n : ReMatch(pruned_params, n))

\* lines 73-78, 131-136: collect the names, enter the binary search
CompressionBeginEntered ==
    /\ _pruned_param_names' = _pruned_param_names \o MatchedParams
    /\ min_ratio' = 0
    /\ max_ratio' = Scale
    /\ flops' = Flops(eval_graph.shape)
    /\ ratios' = <<>>
    /\ param_shape_backup' = <<>>
    /\ pc' = "search"
    /\ UNCHANGED <<cfgVars, _current_tokens, _range_table, _param_backup,
                   _param_shape_backup, backup_set, ctxVars, controller, err,
                   snap, last_constrain,
                   constrain_tokens, codec>>

\* on_compression_begin called on the strategy just constructed
OnCompressionBegin ==
    /\ pc = "new" /\ err = "none"
    /\ CompressionBeginEntered

\* on_compression_begin called once more on the same strategy, after the
\* call before it has returned and before the first epoch
OnCompressionBeginAgain ==
    /\ pc = "epoch_begin" /\ err = "none"
    /\ controller.last = "reset" /\ epoch_id = 0
    /\ controller.resets < MaxBegins
    /\ CompressionBeginEntered

\* ratio = (max_ratio + min_ratio) / 2, rounded to the grid, ties to even
MidPoint(lo, hi) ==
    LET s == lo + hi
    IN IF s % 2 = 0 THEN s \div 2
       ELSE IF ((s - 1) \div 2) % 2 = 0 THEN (s - 1) \div 2
       ELSE (s + 1) \div 2

\* lines 137-148: the loop test, the midpoint, the graph-only trial prune
SearchPrune ==
    /\ pc = "search" /\ err = "none"
    /\ min_ratio < max_ratio
    /\ LET ratio == MidPoint(min_ratio, max_ratio)
           rs == [i \in 1..Len(_pruned_param_names) |-> <<ratio, Scale>>]
           st == PruneParameters(eval_graph.shape, scope,
                                 _pruned_param_names, rs, TRUE, FALSE, TRUE)
       IN /\ ratios' = rs
          /\ param_shape_backup' = st.sb
          /\ eval_graph' = [eval_graph EXCEPT !.shape = st.shape]
    /\ pc' = "measure"
    /\ UNCHANGED <<cfgVars, stratVars, min_ratio, max_ratio, flops, epoch_id,
                   skip_training, eval_results, optimize_graph, scope,
                   controller, err, snap, last_constrain,
                   constrain_tokens, codec>>

\* abs(pruned_flops - target) < 1e-2, with pruned_flops = 1 - f / flops0 and
\* target = (lo + hi) / 2 in hundredths
WithinTolerance(f, flops0, lo, hi) ==
    LET d == 2 * Tolerance * (flops0 - f) - (lo + hi) * flops0
    IN (IF d < 0 THEN -d ELSE d) < 2 * flops0

\* pruned_flops > target
AboveTarget(f, flops0, lo, hi) ==
    2 * Tolerance * (flops0 - f) > (lo + hi) * flops0

\* lines 150-162: measure, restore the shapes, break or narrow the interval
SearchCompare ==
    /\ pc = "measure" /\ err = "none"
    /\ LET f == Flops(eval_graph.shape)
           ratio == MidPoint(min_ratio, max_ratio)
           found == WithinTolerance(f, flops, _min_ratio, _max_ratio)
           above == AboveTarget(f, flops, _min_ratio, _max_ratio)
           hi2 == IF ~found /\ above THEN ratio ELSE max_ratio
           lo2 == IF ~found /\ ~above THEN ratio ELSE min_ratio
       IN /\ eval_graph' = [eval_graph EXCEPT
                               !.shape = SetShapes(@, param_shape_backup)]
          /\ max_ratio' = hi2
          /\ min_ratio' = lo2
          /\ pc' = IF found \/ ~(lo2 < hi2) THEN "return" ELSE "search"
    /\ UNCHANGED <<cfgVars, stratVars, ratios, flops, param_shape_backup,
                   epoch_id, skip_training, eval_results, optimize_graph,
                   scope, controller, err, snap, last_constrain,
                   constrain_tokens, codec>>

\* Controller.reset(range_table, init_tokens, constrain_func)
ControllerReset(c, range_table, tokens) ==
    [c EXCEPT !.resets = @ + 1, !.last = "reset", !._best_tokens = tokens,
              !.max_reward = 0]

\* lines 164, 115, 78-85: return the ratios, convert them, reset the controller
SearchReturn ==
    /\ pc = "return" /\ err = "none"
    /\ LET tokens == RatiosToTokens(ratios)
       IN /\ _current_tokens' = tokens
          /\ _range_table' = tokens
          /\ controller' = ControllerReset(controller, tokens, tokens)
    /\ pc' = "epoch_begin"
    /\ UNCHANGED <<cfgVars, _pruned_param_names, _param_backup,
                   _param_shape_backup, backup_set, searchVars, ctxVars, err,
                   snap, last_constrain,
                   constrain_tokens, codec>>

----------------------------------------------------------------------------
(* _constrain_func, the callable the controller holds after reset *)

TokenVectors(n) == [1..n -> TokenValues]
ProbeVectors(n) == [1..n -> ProbeValues]

\* the band test with both comparisons strict
InBandStrict(f, ori_flops, lo, hi) ==
    /\ Quantum * (ori_flops - f) > lo * ori_flops
    /\ Quantum * (ori_flops - f) < hi * ori_flops

\* lines 105-109: min_ratio <= 1 - flops / ori_flops <= max_ratio, the band
\* in hundredths
InBand(f, ori_flops, lo, hi) ==
    /\ Quantum * (ori_flops - f) >= lo * ori_flops
    /\ Quantum * (ori_flops - f) <= hi * ori_flops

\* lines 89-109: the evaluation graph after the call and the value returned
ConstrainFuncResult(tokens) ==
    LET ori_flops == Flops(eval_graph.shape)
        st == PruneParameters(eval_graph.shape, scope, _pruned_param_names,
                              TokensToRatios(tokens), TRUE, FALSE, TRUE)
        groups == UpdateGroupsOfConv(st.shape)
        f == Flops(st.shape)
    IN [graph |-> [shape |-> SetShapes(st.shape, st.sb), groups |-> groups],
        value |-> InBand(f, ori_flops, _min_ratio, _max_ratio)]

\* The controller calls it from reset and from next_tokens.  A call made from
\* next_tokens is followed, in on_epoch_begin, by lines 188-190, which set the
\* evaluation graph's shapes and groups anew; the calls of reset are the ones
\* whose effect the caller can see.
ConstrainFunc ==
    /\ pc = "epoch_begin" /\ err = "none"
    /\ controller.last = "reset"
    /\ \E tokens \in ProbeVectors(Len(_range_table)) :
          LET r == ConstrainFuncResult(tokens)
          IN /\ eval_graph' = r.graph
             /\ last_constrain' = IF r.value THEN "true" ELSE "false"
             /\ constrain_tokens' = tokens
    /\ UNCHANGED <<cfgVars, stratVars, searchVars, epoch_id, skip_training,
                   eval_results, optimize_graph, scope, controller, pc, err,
                   snap, codec>>

----------------------------------------------------------------------------
(* The controller *)

\* Controller.next_tokens() returning tokens
ControllerNextTokens(c, tokens) ==
    [c EXCEPT !.n_next = @ + 1, !.last = "next_tokens", !.issued = tokens]

\* Controller.update(tokens, reward), called while the optimization graph
\* has the shapes seen; the best tokens are those of the highest reward
ControllerUpdate(c, tokens, reward, seen) ==
    [c EXCEPT !.n_update = @ + 1, !.last = "update",
              !.upd = [tokens |-> tokens, reward |-> reward, seen |-> seen],
              !._best_tokens = IF reward > c.max_reward THEN tokens ELSE @,
              !.max_reward = IF reward > c.max_reward THEN reward ELSE @]

----------------------------------------------------------------------------
(* on_epoch_begin *)

\* on_epoch_begin with its window opening one epoch late
EpochBeginCondLate ==
    /\ epoch_id > start_epoch
    /\ epoch_id <= end_epoch
    /\ (_retrain_epoch = 0 \/ (epoch_id - start_epoch) % _retrain_epoch = 0)

\* on_epoch_begin with the window of on_epoch_end: strictly before end_epoch
EpochBeginCondBeforeEnd ==
    /\ epoch_id >= start_epoch
    /\ epoch_id < end_epoch
    /\ (_retrain_epoch = 0 \/ (epoch_id - start_epoch) % _retrain_epoch = 0)

\* on_epoch_begin without the test against start_epoch
EpochBeginCondNoStart ==
    /\ epoch_id <= end_epoch
    /\ (_retrain_epoch = 0 \/ (epoch_id - start_epoch) % _retrain_epoch = 0)

\* lines 171-173
EpochBeginCond ==
    /\ epoch_id >= start_epoch
    /\ epoch_id <= end_epoch
    /\ (_retrain_epoch = 0 \/ (epoch_id - start_epoch) % _retrain_epoch = 0)

\* lines 176-190: the trial prune of the optimization graph with backups,
\* mirrored into the evaluation graph
OpenedTrial(tokens) ==
    LET st == PruneParameters(optimize_graph.shape, scope,
                              _pruned_param_names, TokensToRatios(tokens),
                              FALSE, TRUE, TRUE)
        es == PruneGraph(eval_graph.shape, st.shape)
    IN [scope |-> st.scope,
        opt |-> [shape |-> st.shape, groups |-> UpdateGroupsOfConv(st.shape)],
        eval |-> [shape |-> es, groups |-> UpdateGroupsOfConv(es)],
        pb |-> st.pb, sb |-> st.sb]

OnEpochBegin ==
    /\ pc = "epoch_begin" /\ err = "none"
    \* the observations start afresh
    /\ snap' = [opt |-> optimize_graph.shape, eval |-> eval_graph.shape,
                scope |-> scope]
    /\ IF EpochBeginCond
       THEN \E tokens \in TokenVectors(Len(_range_table)) :
               LET t == OpenedTrial(tokens)
               IN /\ controller' = ControllerNextTokens(controller, tokens)
                  /\ _current_tokens' = tokens
                  /\ _param_backup' = t.pb
                  /\ _param_shape_backup' = t.sb
                  /\ backup_set' = TRUE
                  /\ optimize_graph' = t.opt
                  /\ eval_graph' = t.eval
                  /\ scope' = t.scope
                  /\ skip_training' = (_retrain_epoch = 0)
       ELSE UNCHANGED <<controller, _current_tokens, _param_backup,
                        _param_shape_backup, backup_set, optimize_graph,
                        eval_graph, scope, skip_training>>
    /\ pc' = "train"
    /\ last_constrain' = "none"
    /\ constrain_tokens' = <<>>
    /\ UNCHANGED <<cfgVars, _pruned_param_names, _range_table, searchVars,
                   epoch_id, eval_results, err, codec>>

----------------------------------------------------------------------------
(* The training loop between the two hooks *)

\* the epoch's training, skipped when context.skip_training, and the
\* evaluation that may append a result of the metric
TrainOneEpoch ==
    /\ pc = "train" /\ err = "none"
    /\ scope' = IF skip_training THEN scope
                ELSE [n \in Names |-> [scope[n] EXCEPT !.ver = @ + 1]]
    /\ \/ UNCHANGED eval_results
       \/ /\ Len(eval_results) < 1 + MaxEvals
          /\ \E r \in Rewards : eval_results' = Append(eval_results, r)
    /\ pc' = "epoch_end"
    /\ UNCHANGED <<cfgVars, stratVars, searchVars, epoch_id, skip_training,
                   eval_graph, optimize_graph, controller, err, snap,
                   last_constrain,
                   constrain_tokens, codec>>

NextEpoch ==
    /\ pc = "epoch_done" /\ err = "none"
    /\ epoch_id < MaxEpoch
    /\ epoch_id' = epoch_id + 1
    /\ pc' = "epoch_begin"
    /\ UNCHANGED <<cfgVars, stratVars, searchVars, skip_training,
                   eval_results, eval_graph, optimize_graph, scope,
                   controller, err, snap, last_constrain,
                   constrain_tokens, codec>>

----------------------------------------------------------------------------
(* on_epoch_end *)

\* on_epoch_end with its window opening one epoch late
EpochEndCondLate ==
    /\ epoch_id > start_epoch
    /\ epoch_id < end_epoch
    /\ (_retrain_epoch = 0 \/ (epoch_id - start_epoch) % _retrain_epoch = 0)

\* lines 200-202
EpochEndCond ==
    /\ epoch_id >= start_epoch
    /\ epoch_id < end_epoch
    /\ (_retrain_epoch = 0 \/ (epoch_id - start_epoch) % _retrain_epoch = 0)

\* lines 203-204: the arguments of controller.update
UpdateArgs == [tokens |-> _current_tokens, reward |-> Last(eval_results)]

\* the restore without lines 212-214: the shapes stay pruned
RestoredTrialShapesKept ==
    LET sc == SetTensors(scope, _param_backup)
        os == optimize_graph.shape
        es == PruneGraph(eval_graph.shape, os)
    IN [scope |-> sc,
        opt |-> [shape |-> os, groups |-> UpdateGroupsOfConv(os)],
        eval |-> [shape |-> es, groups |-> UpdateGroupsOfConv(es)],
        pb |-> <<>>, sb |-> <<>>]

\* the restore without line 215: the shape backup is not cleared
RestoredTrialBackupKept ==
    LET sc == SetTensors(scope, _param_backup)
        os == SetShapes(optimize_graph.shape, _param_shape_backup)
        es == PruneGraph(eval_graph.shape, os)
    IN [scope |-> sc,
        opt |-> [shape |-> os, groups |-> UpdateGroupsOfConv(os)],
        eval |-> [shape |-> es, groups |-> UpdateGroupsOfConv(es)],
        pb |-> <<>>, sb |-> _param_shape_backup]

\* lines 206-219: restore the tensors and the shapes, clear both backups
RestoredTrial ==
    LET sc == SetTensors(scope, _param_backup)
        os == SetShapes(optimize_graph.shape, _param_shape_backup)
        es == PruneGraph(eval_graph.shape, os)
    IN [scope |-> sc,
        opt |-> [shape |-> os, groups |-> UpdateGroupsOfConv(os)],
        eval |-> [shape |-> es, groups |-> UpdateGroupsOfConv(es)],
        pb |-> <<>>, sb |-> <<>>]

\* PruneStrategy._get_prune_ratios(tokens): the selected parameters and the
\* ratios of the tokens
GetPruneRatios(tokens) ==
    [params |-> _pruned_param_names, ratios |-> TokensToRatios(tokens)]

\* line 227 reads self.param_backup, an attribute the class never sets: the
\* loop over self._param_backup.keys() raises on its first key.  The
\* backups themselves are first set by on_epoch_begin (lines 178-179).
FinalCommitError ==
    IF ~backup_set THEN "AttributeError"
    ELSE IF DOMAIN _param_backup # {} THEN "AttributeError"
    ELSE "none"

\* lines 229-245: restore the shapes of both graphs, then prune the
\* optimization graph with the controller's best tokens, keeping no backup
FinalCommit ==
    LET es0 == SetShapes(eval_graph.shape, _param_shape_backup)
        os0 == SetShapes(optimize_graph.shape, _param_shape_backup)
        pr == GetPruneRatios(controller._best_tokens)
        st == PruneParameters(os0, scope, pr.params, pr.ratios,
                              FALSE, FALSE, FALSE)
        es == PruneGraph(es0, st.shape)
    IN [scope |-> st.scope,
        opt |-> [shape |-> st.shape, groups |-> UpdateGroupsOfConv(st.shape)],
        eval |-> [shape |-> es, groups |-> UpdateGroupsOfConv(es)]]

OnEpochEnd ==
    /\ pc = "epoch_end" /\ err = "none"
    /\ pc' = "epoch_done"
    /\ IF EpochEndCond
       THEN /\ controller' = ControllerUpdate(controller, UpdateArgs.tokens,
                                              UpdateArgs.reward,
                                              optimize_graph.shape)
            /\ scope' = RestoredTrial.scope
            /\ optimize_graph' = RestoredTrial.opt
            /\ eval_graph' = RestoredTrial.eval
            /\ _param_backup' = RestoredTrial.pb
            /\ _param_shape_backup' = RestoredTrial.sb
            /\ UNCHANGED <<skip_training, err>>
       ELSE IF epoch_id = end_epoch
       THEN IF FinalCommitError # "none"
            THEN /\ err' = FinalCommitError
                 /\ UNCHANGED <<controller, scope, optimize_graph, eval_graph,
                                _param_backup, _param_shape_backup,
                                skip_training>>
            ELSE /\ scope' = FinalCommit.scope
                 /\ optimize_graph' = FinalCommit.opt
                 /\ eval_graph' = FinalCommit.eval
                 /\ skip_training' = FALSE
                 /\ UNCHANGED <<controller, _param_backup,
                                _param_shape_backup, err>>
       ELSE UNCHANGED <<controller, scope, optimize_graph, eval_graph,
                        _param_backup, _param_shape_backup, skip_training,
                        err>>
    /\ UNCHANGED <<cfgVars, _pruned_param_names, _current_tokens,
                   _range_table, backup_set, searchVars, epoch_id,
                   eval_results, snap, last_constrain,
                   constrain_tokens, codec>>

----------------------------------------------------------------------------
(* The codec called on its own: a ratio to its token and back *)

\* a strategy just constructed and a ratio to convert
CodecInit ==
    /\ InitStrategy
    /\ start_epoch = 0 /\ end_epoch = 0 /\ retrain_epoch = 0
    /\ _min_ratio = 50 /\ pruned_params = "conv1.*"
    /\ eval_graph.shape["conv1_weights"] = 6
    /\ \E r \in CodecInputs : codec = [pc |-> "ratio", r |-> r]

\* lines 117-120 on [r]
RatiosToTokensCall ==
    /\ codec.pc = "ratio"
    /\ codec' = [pc |-> "token", r |-> codec.r,
                 tokens |-> RatiosToTokens(<<codec.r>>)]
    /\ UNCHANGED <<cfgVars, stratVars, searchVars, ctxVars, controller, pc,
                   err, snap, last_constrain, constrain_tokens>>

\* lines 122-125 on the tokens
TokensToRatiosCall ==
    /\ codec.pc = "token"
    /\ codec' = [pc |-> "back", r |-> codec.r, tokens |-> codec.tokens,
                 q |-> TokensToRatios(codec.tokens)]
    /\ UNCHANGED <<cfgVars, stratVars, searchVars, ctxVars, controller, pc,
                   err, snap, last_constrain, constrain_tokens>>

CodecNext ==
    \/ RatiosToTokensCall
    \/ TokensToRatiosCall

CodecSpec == CodecInit /\ [][CodecNext]_vars

----------------------------------------------------------------------------
Next ==
    \/ OnCompressionBegin
    \/ SearchPrune
    \/ SearchCompare
    \/ SearchReturn
    \/ ConstrainFunc
    \/ OnEpochBegin
    \/ TrainOneEpoch
    \/ OnEpochEnd
    \/ NextEpoch

Spec == Init /\ [][Next]_vars

\* the training loop and the strategy keep running while a step is enabled
FairSpec == Spec /\ WF_vars(Next)

\* the strategy handed to a compression run more than once
RestartNext ==
    \/ Next
    \/ OnCompressionBeginAgain

\* the strategies that select at most one parameter
RestartInit == Init /\ Len(MatchedParams) <= 1

RestartSpec == RestartInit /\ [][RestartNext]_vars

----------------------------------------------------------------------------
(* Properties *)

LedgerEmpty == DOMAIN _param_backup = {} /\ DOMAIN _param_shape_backup = {}

\* on_epoch_end has returned from the restoring branch of this epoch
TrialClosed ==
    /\ pc = "epoch_done" /\ err = "none"
    /\ epoch_id >= start_epoch /\ epoch_id < end_epoch

\* the optimization graph's shapes after a permanent prune of base with tokens
CommittedShape(base, tokens) ==
    PruneParameters(base, scope, _pruned_param_names, TokensToRatios(tokens),
                    FALSE, FALSE, FALSE).shape

\* C1: for every epoch_id with start_epoch <= epoch_id < end_epoch and every
\* token vector of the controller, on_epoch_begin followed by on_epoch_end
\* leaves the shapes of the optimization graph and of the evaluation graph,
\* and the tensors of the scope, as they were just before on_epoch_begin.
RestoreIdempotent ==
    TrialClosed =>
        /\ optimize_graph.shape = snap.opt
        /\ eval_graph.shape = snap.eval
        /\ scope = snap.scope

\* a trial that changed the shapes has been restored
RestoreIdempotentWitness ==
    /\ TrialClosed
    /\ controller.last = "update"
    /\ controller.upd.seen # optimize_graph.shape
    /\ \E i \in 1..Len(_current_tokens) : _current_tokens[i] = 30

\* C2: on_epoch_end called with epoch_id = end_epoch completes without
\* error, restores what the open trial backed up and leaves the
\* optimization graph pruned, from the pre-trial baseline, with 0.01 times
\* the controller's best tokens.
FinalCommitCompletes ==
    (pc = "epoch_done" /\ epoch_id = end_epoch) =>
        /\ err = "none"
        /\ optimize_graph.shape =
               CommittedShape(snap.opt, controller._best_tokens)

\* C3: once on_epoch_end has run the final commit (epoch_id = end_epoch),
\* both backups are empty, in that state and in every later one.
LedgerEmptyAfterFinal ==
    ((pc = "epoch_done" /\ epoch_id = end_epoch) \/ epoch_id > end_epoch)
        => LedgerEmpty

\* C4: for every epoch but the final one, after on_epoch_begin and then
\* on_epoch_end of that epoch both backup maps are empty.
EndLeavesNoTrial ==
    (pc = "epoch_done" /\ epoch_id # end_epoch) => LedgerEmpty

\* on_epoch_end has closed a trial that had backed parameters up
EndLeavesNoTrialWitness ==
    /\ pc = "epoch_done" /\ epoch_id # end_epoch
    /\ controller.last = "update"
    /\ controller.n_update = controller.n_next
    /\ Len(_pruned_param_names) = 2
    /\ LedgerEmpty

\* C5: after any number of _constrain_func calls the evaluation graph's
\* shapes, FLOPs and conv groups are what they were before the first call.
ConstrainFuncNoSideEffect ==
    (last_constrain # "none" /\ controller.last = "reset") =>
        /\ eval_graph.shape = snap.eval
        /\ Flops(eval_graph.shape) = Flops(snap.eval)
        /\ eval_graph.groups = UpdateGroupsOfConv(snap.eval)

\* on_epoch_begin opens a trial in this step
OpensTrial ==
    /\ pc = "epoch_begin" /\ pc' = "train"
    /\ controller'.n_next = controller.n_next + 1

\* C6: whenever on_epoch_begin opens a trial, overwriting the backup maps,
\* the maps are empty: no backup of an unrestored trial is discarded.
OneTrialAtATime == [][OpensTrial => LedgerEmpty]_vars

\* a second trial is open
OneTrialAtATimeWitness ==
    /\ pc = "train"
    /\ controller.n_next >= 2
    /\ DOMAIN _param_backup # {}

\* C7: reset is called once, before any other call of the controller; then
\* next_tokens and update alternate, next_tokens first; every update passes
\* the tokens of the next_tokens before it and the latest value of the
\* metric, and is made before the trial is restored.
ControllerInSequence ==
    /\ [](/\ controller.resets <= 1
          /\ (controller.n_next + controller.n_update > 0
                 => controller.resets = 1)
          /\ controller.n_update <= controller.n_next
          /\ controller.n_next <= controller.n_update + 1)
    /\ [][/\ (controller'.resets # controller.resets
                 => controller.last = "none")
          /\ (controller'.n_next # controller.n_next
                 => controller.last \in {"reset", "update"})
          /\ (controller'.n_update # controller.n_update
                 => /\ controller.last = "next_tokens"
                    /\ controller'.upd.tokens = controller.issued
                    /\ controller'.upd.reward = Last(eval_results)
                    /\ controller'.upd.seen = optimize_graph.shape
                    /\ DOMAIN _param_backup =
                           {_pruned_param_names[i] :
                               i \in 1..Len(_pruned_param_names)})]_vars

\* two trials have been reported, the second with a fresh metric value
ControllerInSequenceWitness ==
    /\ controller.n_update = 2
    /\ controller.last = "update"
    /\ controller.upd.reward = 2
    /\ controller.upd.tokens # controller._best_tokens

\* C8: constructed with retrain_epoch = k > 0, on_epoch_begin opens a trial
\* only at epochs where epoch_id - start_epoch is a multiple of k, and sets
\* skip_training to false.
RetrainIntervalHonoured ==
    [][(OpensTrial /\ retrain_epoch > 0) =>
          /\ (epoch_id - start_epoch) % retrain_epoch = 0
          /\ skip_training' = FALSE]_vars

\* the FLOPs of the evaluation graph under a graph-only prune with rs
FlopsAt(rs) ==
    Flops(PruneParameters(eval_graph.shape, scope, _pruned_param_names, rs,
                          TRUE, FALSE, FALSE).shape)

\* C9: whenever _get_uniform_ratios returns, the FLOPs reduction of the
\* returned uniform ratio is within 0.01 of (min_ratio + max_ratio) / 2 and
\* all elements of the vector are the same ratio (the FLOPs curve of the
\* graphs here is non-decreasing in the ratio).  Stated for a selection of
\* at least one parameter.
UniformRatiosConverged ==
    (pc = "return" /\ Len(_pruned_param_names) > 0) =>
        /\ \A i, j \in 1..Len(ratios) : ratios[i] = ratios[j]
        /\ WithinTolerance(FlopsAt(ratios), Flops(eval_graph.shape),
                           _min_ratio, _max_ratio)

\* C10: the binary search of _get_uniform_ratios always terminates.
SearchTerminates == (pc = "search") ~> (pc = "return")

\* the last _constrain_func call is the latest thing the strategy ran
ConstrainFuncReturned == last_constrain # "none" /\ controller.last = "reset"

FinalCommitCalled == pc = "epoch_done" /\ epoch_id = end_epoch

\* C12: every on_epoch_begin that opens a trial sets skip_training to true
\* exactly when retrain_epoch = 0; the final commit at epoch_id = end_epoch
\* sets it to false; in later epochs neither hook sets it to true again.
SkipTrainingLifecycle ==
    /\ [][OpensTrial => (skip_training' <=> retrain_epoch = 0)]_vars
    /\ [](FinalCommitCalled => ~skip_training)
    /\ [][(epoch_id > end_epoch /\ ~skip_training) => ~skip_training']_vars

\* C13: when no parameter of the evaluation graph matches pruned_params,
\* on_compression_begin fails with an error: it neither runs the binary
\* search over an empty parameter list nor resets the controller with an
\* empty token vector.
EmptySelectionFailsFast ==
    (MatchedParams = <<>> /\ pc # "new") =>
        /\ err # "none"
        /\ pc \notin {"search", "measure", "return"}
        /\ controller.resets = 0

\* the offset of a ratio, ulps included, from the rational it stands for
RatioOffset(r) ==
    IF Len(r) = 3 THEN DoubleOf(r[1]).err + r[3] * DoubleOf(r[1]).ulp
    ELSE RatioErr(r)

\* q <= r as doubles: the rationals decide unless they are equal
RatioLeq(q, r) ==
    \/ q[1] * r[2] < r[1] * q[2]
    \/ /\ q[1] * r[2] = r[1] * q[2]
       /\ RatioOffset(q) <= RatioOffset(r)

\* r - q < 0.01 as doubles
GapBelowQuantum(r, q) ==
    LET d == (r[1] * q[2] - q[1] * r[2]) * Quantum
        m == r[2] * q[2]
    IN \/ d < m
       \/ d = m /\ RatioOffset(r) - RatioOffset(q) < HundredthErr

\* C14: for every ratio r in [0, 1), _tokens_to_ratios(_ratios_to_tokens([r]))
\* yields q with q <= r and r - q < 0.01, and the token lies in [0, 100).
CodecRoundTripFloors ==
    codec.pc = "back" =>
        /\ RatioLeq(codec.q[1], codec.r)
        /\ GapBelowQuantum(codec.r, codec.q[1])
        /\ codec.tokens[1] \in 0..(Quantum - 1)

\* on_epoch_begin or on_epoch_end runs in this step
HookStep ==
    \/ pc = "epoch_begin" /\ pc' = "train"
    \/ pc = "epoch_end" /\ pc' = "epoch_done"

OutsideWindow == epoch_id < start_epoch \/ epoch_id > end_epoch

\* no controller call, no error, and the graphs, the tensors, the backups,
\* the current tokens and skip_training are left as they were
HookIsNoOp ==
    UNCHANGED <<controller, eval_graph, optimize_graph, scope, _param_backup,
                _param_shape_backup, _current_tokens, skip_training, err>>

\* C15, as claimed: for every start_epoch and end_epoch and every epoch_id
\* outside [start_epoch, end_epoch], on_epoch_begin and on_epoch_end are
\* no-ops.
HooksNoOpOutsideWindow == [][(HookStep /\ OutsideWindow) => HookIsNoOp]_vars

\* C15, amended: for every start_epoch and end_epoch and every epoch_id
\* outside [start_epoch, end_epoch], on_epoch_begin is a no-op, and so is
\* on_epoch_end unless epoch_id = end_epoch (outside the window only when
\* start_epoch > end_epoch), where it runs the final commit.
HooksNoOpOutsideWindowButFinal ==
    [][(HookStep /\ OutsideWindow /\ ~(pc = "epoch_end" /\ epoch_id = end_epoch))
          => HookIsNoOp]_vars

\* both hooks have run before the window of a strategy that selects
\* parameters
HooksNoOpOutsideWindowWitness ==
    /\ pc = "epoch_done" /\ err = "none"
    /\ epoch_id < start_epoch /\ epoch_id # end_epoch
    /\ controller.resets = 1 /\ controller.n_next = 0
    /\ Len(_pruned_param_names) > 0

\* on_compression_begin has returned and no hook has run since
ResetDone == pc = "epoch_begin" /\ controller.last = "reset" /\ epoch_id = 0

\* C16: the initial token vector that on_compression_begin hands to
\* controller.reset is admissible: _constrain_func returns true on it, for
\* every band with min_ratio <= max_ratio on which the search returns.
InitTokensAdmissible ==
    (ResetDone /\ last_constrain = "none") =>
        ConstrainFuncResult(controller._best_tokens).value

\* both hooks have been called for every epoch up to end_epoch
RunComplete == FinalCommitCalled \/ epoch_id > end_epoch

\* C17, as claimed: every token vector obtained from next_tokens is reported
\* back through update: over a complete run of the epochs start_epoch ..
\* end_epoch the number of next_tokens calls equals the number of update
\* calls.
NextTokensAllReported ==
    (RunComplete /\ start_epoch <= end_epoch) =>
        controller.n_next = controller.n_update

\* C17, amended: every token vector obtained from next_tokens before
\* end_epoch is reported through update by the on_epoch_end of its epoch;
\* the one obtained at end_epoch is never reported: over a complete run of
\* the epochs start_epoch .. end_epoch next_tokens is called once more than
\* update.
NextTokensReportedButLast ==
    /\ (pc = "epoch_done" /\ epoch_id < end_epoch) =>
           controller.n_next = controller.n_update
    /\ (RunComplete /\ start_epoch <= end_epoch) =>
           controller.n_next = controller.n_update + 1
    /\ start_epoch > end_epoch => controller.n_next = 0

\* a run has reported two trials and left the trial of end_epoch unreported
NextTokensReportedButLastWitness ==
    /\ FinalCommitCalled
    /\ controller.n_update = 2
    /\ controller.n_next = 3
    /\ controller.last = "next_tokens"

\* C18: after any number of on_compression_begin calls on the same strategy,
\* _pruned_param_names lists each parameter matching the pattern exactly
\* once, in the graph's order, and the token vectors have as many elements
\* as parameters are selected.
SelectionListedOnce ==
    pc # "new" =>
        /\ _pruned_param_names = MatchedParams
        /\ pc \notin {"search", "measure", "return"} =>
               /\ Len(_current_tokens) = Len(MatchedParams)
               /\ Len(_range_table) = Len(MatchedParams)
====
